---- MODULE Spec2Model ----
(***************************************************************************)
(* threat_class_report.py: a command-line script that asks the TIDE        *)
(* taxonomy service for the threat classes and, with -p, for the           *)
(* properties of each class, and prints a report.  The model follows       *)
(* main() step by step; the helper functions are operators that take the   *)
(* environment's answer (a remote response, the outcome of a file system   *)
(* call) as a parameter and give back what the function returns or raises. *)
(***************************************************************************)
EXTENDS Integers, Sequences, FiniteSets, TLC

\* ------------------------------------------------------------- bounds
MaxClasses == 2
MaxProps == 2
MaxRuns == 2

\* Identifiers the remote service may answer with.
ClassIds == {"malware", "phishing"}
PropIds == {"trojan", "worm"}

SeqsUpTo(S, n) == UNION {[1..k -> S] : k \in 0..n}
ClassSeqs == SeqsUpTo(ClassIds, MaxClasses)
PropSeqs == SeqsUpTo(PropIds, MaxProps)

Range(s) == {s[i] : i \in 1..Len(s)}

VARIABLES
    run,            \* number of the process being run (runs happen one after another)
    pc,             \* position in main()
    add_properties, \* args.properties (-p)
    outputfile,     \* TRUE when -o <filename> was given
    fs,             \* the files at <filename> and <filename>.bak
    sink_log,       \* what each open_file call met, over all runs so far
    outfile,        \* main's local outfile
    acquired,       \* open(filename, 'w') succeeded in this run
    closes,         \* number of outfile.close() calls in this run
    threat_classes, \* main's local threat_classes
    prop_by_class,  \* main's local prop_by_class
    pbar,           \* tqdm progress: loop iterations completed
    calls,          \* remote calls of this run, with their response and outcome
    output,         \* lines printed on the console by output_report
    raised,         \* the exception that ended the run, if any
    exitcode        \* main's local exitcode, returned when main reaches its end

vars == <<run, pc, add_properties, outputfile, fs, sink_log, outfile, acquired,
          closes, threat_classes, prop_by_class, pbar, calls, output, raised,
          exitcode>>

\* ------------------------------------------------------- the `log` name
\* open_file, get_classes and get_properties use a module-level name `log`.
\* The only assignment to `log` is main's local variable (main has no `global`
\* statement), so in the helpers the name is unbound and evaluating
\* log.info / log.debug / log.warning / log.error raises NameError.
LogGlobal == "unbound"

NoExc == [exc |-> "none", at |-> "none"]
Exc(e, f) == [exc |-> e, at |-> f]

\* ---------------------------------------------------------- open_file
\* f: the files before the call; mv: what shutil.move does if it is reached;
\* op: what open(filename, 'w') does if it is reached.  The result holds the
\* files afterwards, the value returned (handler), whether open() gave a file
\* handle, the exception that leaves open_file, and the outcome of the move and
\* of the open ("none" when the call was not reached).
LogThenHandler(h) ==
    \* a log call of open_file, after which handler is returned
    IF LogGlobal = "bound" THEN [handler |-> h, raised |-> "none"]
    ELSE [handler |-> "unset", raised |-> "NameError"]

\* lines 99-104 and 109-114: open(), log.info; on IOError log.error, handler = False
OpenForWrite(f, op) ==
    IF op = "ok"
    THEN [fs |-> [f EXCEPT !.path = "empty"], acquired |-> TRUE, op |-> op]
             @@ LogThenHandler("handle")
    ELSE [fs |-> f, acquired |-> FALSE, op |-> op] @@ LogThenHandler("False")

open_file(f, mv, op) ==
    IF f.path # "absent"
    THEN IF mv = "ok"
         THEN LET moved == [path |-> "absent", bak |-> f.path]
              IN  IF LogGlobal = "bound"
                  THEN OpenForWrite(moved, op) @@ [mv |-> mv]
                  \* log.info (line 98) raises NameError, the bare except
                  \* (line 105) catches it, and log.warning (line 106) raises
                  \* NameError again, which leaves open_file
                  ELSE [fs |-> moved, acquired |-> FALSE, op |-> "none", mv |-> mv]
                           @@ LogThenHandler("False")
         ELSE \* shutil.move raised: bare except, log.warning, handler = False
              [fs |-> f, acquired |-> FALSE, op |-> "none", mv |-> mv]
                  @@ LogThenHandler("False")
    ELSE OpenForWrite(f, op) @@ [mv |-> "none"]

\* ------------------------------------------------- the remote responses
\* A call to the bloxone client either raises (a transport fault) or gives a
\* response with a status code (in return_codes_ok or not) and a text that is
\* not JSON, a JSON object without the expected array, or one with it.  The
\* text of a response with a non-ok status is never read.
Responses(IdSeqs) ==
    {[status |-> "fault", body |-> "none", ids |-> <<>>]}
    \cup {[status |-> s, body |-> b, ids |-> <<>>] :
             s \in {"ok", "error"}, b \in {"malformed", "nofield"}}
    \cup {[status |-> "ok", body |-> "field", ids |-> q] : q \in IdSeqs}

Returned(v) == [raised |-> "none", ret |-> v]
Raised(e) == [raised |-> e, ret |-> <<>>]
\* a log.debug call of a helper followed by the return of v
LogThenReturn(v) == IF LogGlobal = "bound" THEN Returned(v) ELSE Raised("NameError")

get_classes(response) ==
    IF response.status = "fault" THEN Raised("TransportFault")
    ELSE IF response.status = "ok"
         THEN IF response.body = "malformed" THEN Raised("JSONDecodeError")
              ELSE IF response.body = "field" THEN Returned(response.ids)
              ELSE LogThenReturn(<<>>)
         ELSE LogThenReturn(<<>>)

\* get_properties with the failure branches returning the empty list they
\* were written to return
get_properties_returns_empty(response) ==
    IF response.status = "fault" THEN Raised("TransportFault")
    ELSE IF response.status = "ok"
         THEN IF response.body = "malformed" THEN Raised("JSONDecodeError")
              ELSE IF response.body = "field" THEN Returned(response.ids)
              ELSE Returned(<<>>)
         ELSE Returned(<<>>)

get_properties(response) ==
    IF response.status = "fault" THEN Raised("TransportFault")
    ELSE IF response.status = "ok"
         THEN IF response.body = "malformed" THEN Raised("JSONDecodeError")
              ELSE IF response.body = "field" THEN Returned(response.ids)
              ELSE LogThenReturn(<<>>)
         ELSE LogThenReturn(<<>>)

\* ------------------------------------------------------ output_report
Line(k, v) == [k |-> k, v |-> v]
Blank == Line("blank", "")

PropLines(props) == [i \in 1..Len(props) |-> Line("property", props[i])]
ClassLines(tcs) == [i \in 1..Len(tcs) |-> Line("class", tcs[i])]

\* the loop of lines 221-226; prop_by_class[tclass] raises KeyError for a class
\* that is no key (collections.defaultdict() has no default_factory)
RECURSIVE grouped_loop(_, _, _)
grouped_loop(tcs, pbc, out) ==
    IF tcs = <<>> THEN [lines |-> out, raised |-> "none"]
    ELSE LET tclass == Head(tcs)
             headed == out \o <<Blank, Line("class_header", tclass),
                                Line("properties_header", "")>>
         IN  IF tclass \notin DOMAIN pbc
             THEN [lines |-> headed, raised |-> "KeyError"]
             ELSE grouped_loop(Tail(tcs), pbc, headed \o PropLines(pbc[tclass]))

\* output_report testing the class list instead of the mapping at line 220
output_report_tests_classes(tcs, pbc) ==
    IF tcs # <<>>
    THEN LET r == grouped_loop(tcs, pbc, <<>>)
         IN  IF r.raised = "none" THEN [r EXCEPT !.lines = @ \o <<Blank>>] ELSE r
    ELSE [lines |-> <<Line("flat_header", "")>> \o ClassLines(tcs) \o <<Blank>>,
          raised |-> "none"]

output_report(tcs, pbc) ==
    IF DOMAIN pbc # {}
    THEN LET r == grouped_loop(tcs, pbc, <<>>)
         IN  IF r.raised = "none" THEN [r EXCEPT !.lines = @ \o <<Blank>>] ELSE r
    ELSE [lines |-> <<Line("flat_header", "")>> \o ClassLines(tcs) \o <<Blank>>,
          raised |-> "none"]

\* ---------------------------------------------------------------- main
EmptyMap == [c \in {} |-> <<>>]
MapSet(m, k, v) == [c \in DOMAIN m \cup {k} |-> IF c = k THEN v ELSE m[c]]

\* main's locals when it reaches line 263 (lines 243-261)
Locals ==
    /\ pc = "open"
    /\ outfile = "unset"
    /\ acquired = FALSE
    /\ closes = 0
    /\ threat_classes = <<>>
    /\ prop_by_class = EmptyMap
    /\ pbar = 0
    /\ calls = <<>>
    /\ output = <<>>
    /\ raised = NoExc
    /\ exitcode = 0

Init ==
    /\ run = 1
    /\ add_properties \in BOOLEAN
    /\ outputfile \in BOOLEAN
    /\ fs \in [path : {"absent", "prior"}, bak : {"absent"}]
    /\ sink_log = <<>>
    /\ Locals

\* where main goes after the classes, or after one iteration of the loop
AfterFetch(n, tcs) ==
    IF add_properties /\ n < Len(tcs) THEN "props" ELSE "report"

\* lines 263-269
SetUpOutput ==
    /\ pc = "open"
    /\ IF outputfile
       THEN \E mv \in {"ok", "fail"}, op \in {"ok", "IOError"} :
              LET r == open_file(fs, mv, op)
              IN  /\ fs' = r.fs
                  /\ acquired' = r.acquired
                  /\ outfile' = r.handler
                  /\ sink_log' = Append(sink_log,
                                        [run |-> run, before |-> fs, after |-> r.fs, mv |-> r.mv,
                                         op |-> r.op, handler |-> r.handler,
                                         raised |-> r.raised])
                  /\ IF r.raised = "none"
                     THEN /\ pc' = "classes"
                          /\ raised' = raised
                     ELSE /\ pc' = "aborted"
                          /\ raised' = Exc(r.raised, "open_file")
       ELSE /\ outfile' = "False"
            /\ pc' = "classes"
            /\ UNCHANGED <<fs, acquired, sink_log, raised>>
    /\ UNCHANGED <<run, add_properties, outputfile, closes, threat_classes,
                   prop_by_class, pbar, calls, output, exitcode>>

Call(f, arg, response, r) ==
    [f |-> f, arg |-> arg, response |-> response, raised |-> r.raised, ret |-> r.ret]

\* lines 271-273
RetrieveClasses ==
    /\ pc = "classes"
    /\ \E response \in Responses(ClassSeqs) :
          LET r == get_classes(response)
          IN  /\ calls' = Append(calls, Call("get_classes", "", response, r))
              /\ IF r.raised = "none"
                 THEN /\ threat_classes' = r.ret
                      /\ pc' = AfterFetch(0, r.ret)
                      /\ raised' = raised
                 ELSE /\ pc' = "aborted"
                      /\ raised' = Exc(r.raised, "get_classes")
                      /\ threat_classes' = threat_classes
    /\ UNCHANGED <<run, add_properties, outputfile, fs, sink_log, outfile, acquired,
                   closes, prop_by_class, pbar, output, exitcode>>

\* one iteration of the loop of lines 278-280
RetrieveProperties ==
    /\ pc = "props"
    /\ LET tc == threat_classes[pbar + 1]
       IN  \E response \in Responses(PropSeqs) :
             LET r == get_properties(response)
             IN  /\ calls' = Append(calls, Call("get_properties", tc, response, r))
                 /\ IF r.raised = "none"
                    THEN /\ prop_by_class' = MapSet(prop_by_class, tc, r.ret)
                         /\ pbar' = pbar + 1
                         /\ pc' = AfterFetch(pbar + 1, threat_classes)
                         /\ raised' = raised
                    ELSE /\ pc' = "aborted"
                         /\ raised' = Exc(r.raised, "get_properties")
                         /\ UNCHANGED <<prop_by_class, pbar>>
    /\ UNCHANGED <<run, add_properties, outputfile, fs, sink_log, outfile, acquired,
                   closes, threat_classes, output, exitcode>>

\* lines 283-285
GenerateReport ==
    /\ pc = "report"
    /\ LET r == output_report(threat_classes, prop_by_class)
       IN  /\ output' = r.lines
           /\ IF r.raised = "none"
              THEN /\ pc' = "close"
                   /\ raised' = raised
              ELSE /\ pc' = "aborted"
                   /\ raised' = Exc(r.raised, "output_report")
    /\ UNCHANGED <<run, add_properties, outputfile, fs, sink_log, outfile, acquired,
                   closes, threat_classes, prop_by_class, pbar, calls, exitcode>>

\* lines 287-293
CloseFiles ==
    /\ pc = "close"
    /\ closes' = IF outfile = "handle" THEN closes + 1 ELSE closes
    /\ pc' = "done"
    /\ UNCHANGED <<run, add_properties, outputfile, fs, sink_log, outfile, acquired,
                   threat_classes, prop_by_class, pbar, calls, output, raised,
                   exitcode>>

\* lines 297-299: the script is started again, with the files the earlier runs left
StartProcess ==
    /\ pc \in {"done", "aborted"}
    /\ run < MaxRuns
    /\ run' = run + 1
    /\ add_properties' \in BOOLEAN
    /\ outputfile' \in BOOLEAN
    /\ pc' = "open"
    /\ outfile' = "unset"
    /\ acquired' = FALSE
    /\ closes' = 0
    /\ threat_classes' = <<>>
    /\ prop_by_class' = EmptyMap
    /\ pbar' = 0
    /\ calls' = <<>>
    /\ output' = <<>>
    /\ raised' = NoExc
    /\ exitcode' = 0
    /\ UNCHANGED <<fs, sink_log>>

Next ==
    \/ SetUpOutput
    \/ RetrieveClasses
    \/ RetrieveProperties
    \/ GenerateReport
    \/ CloseFiles
    \/ StartProcess

Spec == Init /\ [][Next]_vars

\* -------------------------------------------- output_report on its own
\* output_report applied to any class sequence and any mapping from classes to
\* property sequences.
Mappings == UNION {[D -> PropSeqs] : D \in SUBSET ClassIds}

InitRender ==
    /\ run = 1
    /\ add_properties \in BOOLEAN
    /\ outputfile = FALSE
    /\ fs = [path |-> "absent", bak |-> "absent"]
    /\ sink_log = <<>>
    /\ pc = "report"
    /\ outfile = "False"
    /\ acquired = FALSE
    /\ closes = 0
    /\ threat_classes \in ClassSeqs
    /\ prop_by_class \in Mappings
    /\ pbar = 0
    /\ calls = <<>>
    /\ output = <<>>
    /\ raised = NoExc
    /\ exitcode = 0

NextRender == GenerateReport \/ CloseFiles

SpecRender == InitRender /\ [][NextRender]_vars

\* ================================================================ claims
Ended == pc \in {"done", "aborted"}
\* a response with a non-ok status, or an ok one whose JSON lacks the array
Failing(response) ==
    \/ response.status = "error"
    \/ response.status = "ok" /\ response.body = "nofield"
PropertyCalls == SelectSeq(calls, LAMBDA c : c.f = "get_properties")
ClassCalls == SelectSeq(calls, LAMBDA c : c.f = "get_classes")
IsPrefix(s, t) == Len(s) <= Len(t) /\ \A i \in 1..Len(s) : s[i] = t[i]

C2_EmptyNotRaised ==
    \A i \in 1..Len(calls) :
       calls[i].response.body \in {"malformed", "nofield"}
           => calls[i].raised = "none" /\ calls[i].ret = <<>>

\* C3: in a run without a transport fault, a non-ok status or a body without
\* the expected array never aborts the run: the request yields an empty result,
\* the report is rendered and main returns exit code 0.
C3_FailuresNeverAbort ==
    \A i \in 1..Len(calls) :
       Failing(calls[i].response)
           => /\ calls[i].raised = "none"
              /\ calls[i].ret = <<>>
              /\ (i = Len(calls) => pc # "aborted")

C6_RenameFailureContinues ==
    \A i \in 1..Len(sink_log) :
       sink_log[i].mv = "fail"
           => /\ sink_log[i].raised = "none"
              /\ sink_log[i].handler = "False"
              /\ sink_log[i].after = sink_log[i].before
              /\ (sink_log[i].run = run => ~(pc = "aborted" /\ raised.at = "open_file"))

\* C7: open_file on an existing file either fully succeeds (the backup holds the
\* prior content, a fresh empty file is at the path, a handle is returned) or
\* leaves the files as they were and returns no handle.
C7_AllOrNothing ==
    \A i \in 1..Len(sink_log) :
       sink_log[i].before.path # "absent"
           => \/ /\ sink_log[i].after.bak = sink_log[i].before.path
                 /\ sink_log[i].after.path = "empty"
                 /\ sink_log[i].handler = "handle"
              \/ /\ sink_log[i].after = sink_log[i].before
                 /\ sink_log[i].handler # "handle"

\* C8: get_classes is called exactly once and before any get_properties call;
\* with -p get_properties is then called once per class, in class order, through
\* all classes, also after a call that gave no data; without -p it is never
\* called.  Stated for the runs that did not stop in open_file and that neither
\* a transport fault nor a text that is not JSON ended.
C8_CallOrder ==
    /\ Len(ClassCalls) <= 1
    /\ calls # <<>> => calls[1].f = "get_classes"
    /\ IsPrefix([i \in 1..Len(PropertyCalls) |-> PropertyCalls[i].arg], threat_classes)
    /\ ~add_properties => PropertyCalls = <<>>
    /\ ( /\ Ended
         /\ raised.exc \notin {"TransportFault", "JSONDecodeError"}
         /\ raised.at # "open_file" )
          => /\ Len(ClassCalls) = 1
             /\ add_properties =>
                   [i \in 1..Len(PropertyCalls) |-> PropertyCalls[i].arg] = threat_classes

\* C10: no step writes to the output file, so a file the run created at the
\* path is empty; and after two consecutive runs with -o on the same path, with
\* every file system call succeeding, the backup holds the first run's empty
\* file and the content from before the first run is on disk no more.
C10_BackupHoldsEmptyFile ==
    /\ acquired => fs.path = "empty"
    /\ ( /\ Len(sink_log) = 2 /\ run = 2
         /\ sink_log[1].run = 1 /\ sink_log[2].run = 2
         /\ \A i \in 1..2 : sink_log[i].mv # "fail" /\ sink_log[i].op # "IOError" )
          => /\ fs.bak = "empty"
             /\ sink_log[1].before.path = "prior"
                   => fs.path # "prior" /\ fs.bak # "prior"

\* ------------------------------------------- claims about output_report
Rendered == pc # "report"
Kinds(lines) == {lines[i].k : i \in 1..Len(lines)}

\* what C5 expects of grouped mode: per class its header, then its properties
\* in order if the class is a key and no property line otherwise
RECURSIVE C5_Expected(_, _)
C5_Expected(tcs, pbc) ==
    IF tcs = <<>> THEN <<Blank>>
    ELSE <<Blank, Line("class_header", Head(tcs)), Line("properties_header", "")>>
         \o (IF Head(tcs) \in DOMAIN pbc THEN PropLines(pbc[Head(tcs)]) ELSE <<>>)
         \o C5_Expected(Tail(tcs), pbc)

\* C5: with a non-empty mapping output_report goes through the classes in fetch
\* order and prints for each its header and then its properties in the order
\* stored; a class that is no key is headed, gets no property line, and nothing
\* is raised.
C5_GroupedRendering ==
    (Rendered /\ DOMAIN prop_by_class # {})
        => /\ raised = NoExc
           /\ output = C5_Expected(threat_classes, prop_by_class)

\* C9: output_report is in grouped mode exactly when the mapping is non-empty;
\* in flat mode it prints one header, then exactly one line per class in fetch
\* order, and no class header or property line.
C9_ModeSelection ==
    Rendered =>
       /\ ("flat_header" \in Kinds(output)) <=> (DOMAIN prop_by_class = {})
       /\ DOMAIN prop_by_class = {} =>
             /\ raised = NoExc
             /\ Len(output) = Len(threat_classes) + 2
             /\ output[1] = Line("flat_header", "")
             /\ \A i \in 1..Len(threat_classes) :
                   output[i + 1] = Line("class", threat_classes[i])
             /\ output[Len(output)] = Blank
       /\ (DOMAIN prop_by_class # {} /\ threat_classes # <<>>) =>
             /\ "class_header" \in Kinds(output)
             /\ "class" \notin Kinds(output)

\* flat mode over two different classes
C9_Witness ==
    /\ Rendered
    /\ DOMAIN prop_by_class = {}
    /\ Len(threat_classes) = 2
    /\ threat_classes[1] # threat_classes[2]
    /\ Len(output) = 4

====
